---- MODULE Spec2Model ----
(***************************************************************************)
(* Breathly: the ExerciseCircle component (the entrance animation, the     *)
(* looping step sequencer with its sound and minimized-circle side         *)
(* effects, the teardown on unmount, the close button) and the useInterval *)
(* hook.                                                                   *)
(*                                                                         *)
(* JavaScript runs every handler to completion on one thread, so each      *)
(* handler is one action.  A handler's sequential body is written as a     *)
(* composition of operators on the record of the component's fields.       *)
(***************************************************************************)
EXTENDS Integers, Sequences, FiniteSets

VARIABLES
  steps,                 \* the steps prop (Step[]), fixed for a session
  phase,                 \* "init" | "rendered" | "mounted" | "unmounted" | "crashed"
  currentStepIndex,      \* useState(0)
  renderPending,         \* a setCurrentStepIndex awaits its re-render
  displayedIndex,        \* index of the step shown by the last committed render (-1: none)
  showUp,                \* showUpAnimation: "idle" | "running" | "ending"
  showCircleMin,         \* showCircleMinAnimation: "idle" | "running"
  hideCircleMin,         \* hideCircleMinAnimation: "idle" | "running"
  circleMinTarget,       \* toValue of the last animation started on circleMinAnimVal
  scaleTarget,           \* toValue of the last animation started on scaleAnimVal
  loop,                  \* the step loop: "none" | "running" | "stopped"
  currentAnimationIndex, \* index of the step animation the loop plays
  stepAnim,              \* the loop's current step animation: "idle" | "running" | "ending"
  events,                \* history of the calls made, in order
  elapsedTime,           \* the elapsedTime prop
  minimumElapsedTime,    \* the minimumElapsedTime prop
  closeCalls,            \* history of onClosePress(isBreathingDone) calls
  hookPhase,             \* useInterval: "init" | "live" | "gone"
  renderedCallback,      \* callback argument of the latest render
  renderedInterval,      \* interval argument of the latest render
  callbackRef,           \* callbackRef.current
  effectsPending,        \* the latest render's effects are not flushed yet
  effectInterval,        \* the [interval] dependency the timer effect last ran with
  timers,                \* live setInterval registrations
  nextTimerId,           \* next id setInterval returns
  invoked,               \* history of the callbacks the ticks invoked
  timeline               \* one step animation (animateStep) played against a clock

circleVars == <<steps, phase, currentStepIndex, renderPending, displayedIndex,
                showUp, showCircleMin, hideCircleMin, circleMinTarget, scaleTarget,
                loop, currentAnimationIndex, stepAnim, events>>
closeVars == <<elapsedTime, minimumElapsedTime, closeCalls>>
hookVars == <<hookPhase, renderedCallback, renderedInterval, callbackRef,
              effectsPending, effectInterval, timers, nextTimerId, invoked>>
animVars == <<timeline>>
vars == <<circleVars, closeVars, hookVars, animVars>>

----------------------------------------------------------------------------
(* Bounds *)

MaxSteps == 2
MaxEvents == 20
MaxElapsedTime == 3
MaxCloses == 2
MaxInvoked == 3
MaxTimers == 3
MaxDurationTicks == 20

----------------------------------------------------------------------------
(* Steps *)

StepIds == {"inhale", "afterInhale", "exhale", "afterExhale"}
Step == [id : StepIds, skipped : BOOLEAN]
StepLists == UNION {[1..n -> Step] : n \in 0..MaxSteps}

Ev(e, i, s) == [ev |-> e, i |-> i, s |-> s]

activeStepsUnfiltered == steps

activeSteps == SelectSeq(steps, LAMBDA x : ~x.skipped)

----------------------------------------------------------------------------
(* ExerciseCircle: the component's fields as one record, so that a handler *)
(* is the composition of the statements it runs.                           *)

Cur == [phase |-> phase, currentStepIndex |-> currentStepIndex,
        renderPending |-> renderPending, displayedIndex |-> displayedIndex,
        showUp |-> showUp, showCircleMin |-> showCircleMin,
        hideCircleMin |-> hideCircleMin, circleMinTarget |-> circleMinTarget,
        scaleTarget |-> scaleTarget, loop |-> loop,
        currentAnimationIndex |-> currentAnimationIndex,
        stepAnim |-> stepAnim, events |-> events]

Becomes(c) ==
  /\ phase' = c.phase
  /\ currentStepIndex' = c.currentStepIndex
  /\ renderPending' = c.renderPending
  /\ displayedIndex' = c.displayedIndex
  /\ showUp' = c.showUp
  /\ showCircleMin' = c.showCircleMin
  /\ hideCircleMin' = c.hideCircleMin
  /\ circleMinTarget' = c.circleMinTarget
  /\ scaleTarget' = c.scaleTarget
  /\ loop' = c.loop
  /\ currentAnimationIndex' = c.currentAnimationIndex
  /\ stepAnim' = c.stepAnim
  /\ events' = c.events
  /\ steps' = steps

Log(c, e, i, s) == [c EXCEPT !.events = Append(@, Ev(e, i, s))]

\* An uncaught TypeError (a property read on undefined) ends the handler
\* that raised it and takes the component down.
Throw(c) == [Log(c, "TypeError", -1, "") EXCEPT !.phase = "crashed"]

\* playSound(cue): fire and forget.
playSound(c, cue) == Log(c, "playSound", -1, cue)

\* setCurrentStepIndex(i): React drops a state update of an unmounted component.
setCurrentStepIndex(c, i) ==
  IF c.phase = "mounted"
  THEN [c EXCEPT !.currentStepIndex = i, !.renderPending = TRUE]
  ELSE c

\* showCircleMinAnimation.start(): an animation started on circleMinAnimVal
\* supersedes the one running on it.
StartShowCircleMin(c) ==
  [Log(c, "showCircleMin", -1, "") EXCEPT !.showCircleMin = "running",
                                         !.hideCircleMin = "idle",
                                         !.circleMinTarget = 1]

\* hideCircleMinAnimation.start()
StartHideCircleMin(c) ==
  [Log(c, "hideCircleMin", -1, "") EXCEPT !.hideCircleMin = "running",
                                         !.showCircleMin = "idle",
                                         !.circleMinTarget = 0]

\* The sound cue of a step id.
SoundForSwapped(id) ==
  CASE id = "exhale" -> "lauraBreatheIn"
    [] id = "inhale" -> "lauraBreatheOut"
    [] id = "afterExhale" -> "lauraHold"
    [] id = "afterInhale" -> "lauraHold"

SoundFor(id) ==
  CASE id = "exhale" -> "lauraBreatheOut"
    [] id = "inhale" -> "lauraBreatheIn"
    [] id = "afterExhale" -> "lauraHold"
    [] id = "afterInhale" -> "lauraHold"

\* onStepStart(stepIndex); stepIndex counts from 0.
onStepStartSilentHold(c, stepIndex) ==
  LET c1 == setCurrentStepIndex(Log(c, "onStepStart", stepIndex, ""), stepIndex)
  IN IF stepIndex + 1 \notin DOMAIN activeSteps
     THEN Throw(c1)
     ELSE LET step == activeSteps[stepIndex + 1]
          IN CASE step.id = "exhale" ->
                    StartShowCircleMin(playSound(c1, SoundFor(step.id)))
               [] step.id = "inhale" ->
                    StartHideCircleMin(playSound(c1, SoundFor(step.id)))
               [] step.id = "afterExhale" ->
                    StartHideCircleMin(playSound(c1, SoundFor(step.id)))
               [] step.id = "afterInhale" -> c1

onStepStartHidesOnHold(c, stepIndex) ==
  LET c1 == setCurrentStepIndex(Log(c, "onStepStart", stepIndex, ""), stepIndex)
  IN IF stepIndex + 1 \notin DOMAIN activeSteps
     THEN Throw(c1)
     ELSE LET step == activeSteps[stepIndex + 1]
              c2 == playSound(c1, SoundFor(step.id))
          IN CASE step.id = "exhale" -> StartShowCircleMin(c2)
               [] step.id = "inhale" -> StartHideCircleMin(c2)
               [] step.id = "afterExhale" -> StartHideCircleMin(c2)
               [] step.id = "afterInhale" -> StartHideCircleMin(c2)

onStepStart(c, stepIndex) ==
  LET c1 == setCurrentStepIndex(Log(c, "onStepStart", stepIndex, ""), stepIndex)
  IN IF stepIndex + 1 \notin DOMAIN activeSteps
     THEN Throw(c1)
     ELSE LET step == activeSteps[stepIndex + 1]
              c2 == playSound(c1, SoundFor(step.id))
          IN CASE step.id = "exhale" -> StartShowCircleMin(c2)
               [] step.id = "inhale" -> StartHideCircleMin(c2)
               [] step.id = "afterExhale" -> StartHideCircleMin(c2)
               [] step.id = "afterInhale" -> c2

\* The scale value a step drives to.
StepToValueInhaleOnly(id) == IF id = "inhale" THEN 1 ELSE 0

StepToValue(id) == IF id = "inhale" \/ id = "afterInhale" THEN 1 ELSE 0

\* createStepAnimations(): one animation per active step, as its toValue.
createStepAnimationsUnfiltered == [k \in DOMAIN steps |-> StepToValue(steps[k].id)]

createStepAnimations == [k \in DOMAIN activeSteps |-> StepToValue(activeSteps[k].id)]

\* animations[currentAnimationIndex].start(...): the step's animation begins
\* to drive scaleAnimVal.
StartStepAnim(c) ==
  LET i == c.currentAnimationIndex
  IN [Log(c, "stepAnimStart", i, "") EXCEPT !.stepAnim = "running",
                                           !.scaleTarget = createStepAnimations[i + 1]]

\* loopAnimations(createAnimations, onStepStart): Idle -> PlayingStep(0).
loopAnimations(c) ==
  LET c1 == [Log(c, "loopStart", -1, "") EXCEPT !.loop = "running",
                                               !.currentAnimationIndex = 0]
      c2 == onStepStart(c1, 0)
  IN IF c2.phase = "crashed" \/ Len(createStepAnimations) = 0
     THEN c2
     ELSE StartStepAnim(c2)

\* The completion callback of a step animation.
stepAnimCallback(c, finished) ==
  LET i == c.currentAnimationIndex
      c1 == [Log(c, "stepAnimDone", i, IF finished THEN "finished" ELSE "stopped")
               EXCEPT !.stepAnim = "idle"]
  IN IF ~finished
     THEN c1
     ELSE LET next == (i + 1) % Len(createStepAnimations)
              c2 == onStepStart([c1 EXCEPT !.currentAnimationIndex = next], next)
          IN IF c2.phase = "crashed" THEN c2 ELSE StartStepAnim(c2)

\* stopLoop(): stops the animation in flight, which reports finished = false.
stopLoop(c) ==
  LET c1 == [c EXCEPT !.loop = "stopped"]
  IN IF c1.stepAnim \in {"running", "ending"}
     THEN stepAnimCallback(c1, FALSE)
     ELSE c1

\* startAnimationSteps()
startAnimationSteps(c) == loopAnimations(c)

\* The callback given to showUpAnimation.start.
showUpCallbackAlways(c, finished) ==
  startAnimationSteps(
    [Log(c, "showUpDone", -1, IF finished THEN "finished" ELSE "stopped")
       EXCEPT !.showUp = "idle"])

showUpCallback(c, finished) ==
  LET c1 == [Log(c, "showUpDone", -1, IF finished THEN "finished" ELSE "stopped")
               EXCEPT !.showUp = "idle"]
  IN IF finished THEN startAnimationSteps(c1) ELSE c1

\* showUpAnimation.stop()
StopShowUp(c) ==
  IF c.showUp \in {"running", "ending"} THEN showUpCallback(c, FALSE) ELSE c

\* showCircleMinAnimation.stop()
StopShowCircleMin(c) == [c EXCEPT !.showCircleMin = "idle"]

\* hideCircleMinAnimation.stop()
StopHideCircleMin(c) == [c EXCEPT !.hideCircleMin = "idle"]

\* The cleanup the useOnMount callback returns.
cleanUpKeepsLoop(c) ==
  StopHideCircleMin(StopShowCircleMin(StopShowUp(c)))

cleanUpKeepsCircleMin(c) ==
  LET c1 == IF c.loop # "none" THEN stopLoop(c) ELSE c
  IN StopShowUp(c1)

cleanUpUnguarded(c) ==
  LET c1 == IF c.loop # "none" THEN stopLoop(c) ELSE Throw(c)
  IN StopHideCircleMin(StopShowCircleMin(StopShowUp(c1)))

cleanUp(c) ==
  LET c1 == IF c.loop # "none" THEN stopLoop(c) ELSE c
  IN StopHideCircleMin(StopShowCircleMin(StopShowUp(c1)))

\* The useOnMount callback.
onMount(c) ==
  [Log(c, "showUpStart", -1, "") EXCEPT !.phase = "mounted", !.showUp = "running"]

\* The function component's body: the current step is read for its label.
renderBodyFirstStep(c) ==
  IF 1 \notin DOMAIN activeSteps
  THEN Throw(c)
  ELSE [c EXCEPT !.displayedIndex = 0, !.renderPending = FALSE,
                 !.phase = IF c.phase = "init" THEN "rendered" ELSE c.phase]

renderBody(c) ==
  IF c.currentStepIndex + 1 \notin DOMAIN activeSteps
  THEN Throw(c)
  ELSE [c EXCEPT !.displayedIndex = c.currentStepIndex, !.renderPending = FALSE,
                 !.phase = IF c.phase = "init" THEN "rendered" ELSE c.phase]

----------------------------------------------------------------------------
(* ExerciseCircle: actions *)

Others == UNCHANGED <<closeVars, hookVars, animVars>>

\* The first render.
Render == phase = "init" /\ Becomes(renderBody(Cur)) /\ Others

\* The mount effect runs after the first commit.
Mount == phase = "rendered" /\ Becomes(onMount(Cur)) /\ Others

\* The re-render a setCurrentStepIndex asked for.
ReRender == phase = "mounted" /\ renderPending /\ Becomes(renderBody(Cur)) /\ Others

\* The entrance animation reaches its end; its completion callback is queued.
ShowUpEnds ==
  /\ phase # "crashed" /\ showUp = "running"
  /\ Becomes([Log(Cur, "showUpEnds", -1, "") EXCEPT !.showUp = "ending"])
  /\ Others

\* The queued completion callback of the entrance animation runs.
ShowUpDone ==
  phase # "crashed" /\ showUp = "ending" /\ Becomes(showUpCallback(Cur, TRUE)) /\ Others

\* A step animation reaches its end; its completion callback is queued.
StepAnimEnds ==
  /\ phase # "crashed" /\ stepAnim = "running"
  /\ Becomes([Log(Cur, "stepAnimEnds", currentAnimationIndex, "")
                EXCEPT !.stepAnim = "ending"])
  /\ Others

\* The queued completion callback of a step animation runs.
StepAnimDone ==
  /\ phase # "crashed" /\ stepAnim = "ending"
  /\ Len(events) < MaxEvents
  /\ Becomes(stepAnimCallback(Cur, TRUE))
  /\ Others

\* The minimized-circle animation in flight reaches its end.
CircleMinEnds ==
  /\ phase # "crashed"
  /\ "running" \in {showCircleMin, hideCircleMin}
  /\ Becomes([Log(Cur, "circleMinEnds", -1, "") EXCEPT !.showCircleMin = "idle",
                                                      !.hideCircleMin = "idle"])
  /\ Others

\* The component is unmounted: the mount effect's cleanup runs.
Unmount ==
  /\ phase = "mounted"
  /\ Becomes(cleanUp([Log(Cur, "unmount", -1, "") EXCEPT !.phase = "unmounted",
                                                        !.renderPending = FALSE]))
  /\ Others

----------------------------------------------------------------------------
(* ExerciseCircle: the close button *)

\* Whether the exercise was held long enough.
IsBreathingDoneStrict(elapsed, minimum) == elapsed * 1000 > minimum

IsBreathingDone(elapsed, minimum) == elapsed * 1000 >= minimum

MinimumElapsedTimes == {0, 1, 2, 3, 999, 1000, 1001, 2000, 2500, 3000}

\* The parent re-renders the component with the time elapsed so far.
ParentRender ==
  /\ phase = "mounted"
  /\ \E e \in 0..MaxElapsedTime : elapsedTime' = e
  /\ UNCHANGED <<minimumElapsedTime, closeCalls, circleVars, hookVars, animVars>>

\* ButtonAnimator's onClosePress handler.
ClosePress ==
  /\ phase = "mounted"
  /\ Len(closeCalls) < MaxCloses
  /\ closeCalls' = Append(closeCalls,
                          [isBreathingDone |-> IsBreathingDone(elapsedTime, minimumElapsedTime),
                           elapsedTime |-> elapsedTime,
                           minimumElapsedTime |-> minimumElapsedTime])
  /\ UNCHANGED <<elapsedTime, minimumElapsedTime, circleVars, hookVars, animVars>>

----------------------------------------------------------------------------
(* useInterval *)

Callbacks == {"A", "B"}
Intervals == {1000, 2000}

Hook == [hookPhase |-> hookPhase, renderedCallback |-> renderedCallback,
         renderedInterval |-> renderedInterval, callbackRef |-> callbackRef,
         effectsPending |-> effectsPending, effectInterval |-> effectInterval,
         timers |-> timers, nextTimerId |-> nextTimerId, invoked |-> invoked]

HookBecomes(h) ==
  /\ hookPhase' = h.hookPhase
  /\ renderedCallback' = h.renderedCallback
  /\ renderedInterval' = h.renderedInterval
  /\ callbackRef' = h.callbackRef
  /\ effectsPending' = h.effectsPending
  /\ effectInterval' = h.effectInterval
  /\ timers' = h.timers
  /\ nextTimerId' = h.nextTimerId
  /\ invoked' = h.invoked

\* The first effect: callbackRef.current = callback, after every render.
callbackEffectOnMountOnly(h) ==
  IF h.callbackRef = "null" THEN [h EXCEPT !.callbackRef = h.renderedCallback] ELSE h

callbackEffect(h) == [h EXCEPT !.callbackRef = h.renderedCallback]

\* The cleanup of the second effect: clearInterval(id), id being the timer
\* the effect's last run created.
timerCleanupMissing(h) == h

timerCleanup(h) == [h EXCEPT !.timers = {t \in h.timers : t.id # h.nextTimerId - 1}]

\* The second effect: let id = setInterval(tick, interval).
timerCreate(h) ==
  [h EXCEPT !.timers = h.timers \cup {[id |-> h.nextTimerId, interval |-> h.renderedInterval]},
            !.nextTimerId = h.nextTimerId + 1,
            !.effectInterval = h.renderedInterval]

\* The effects of a committed render: the second runs on mount and when
\* [interval] has changed, its previous cleanup first.
flushEffectsNoDeps(h) ==
  IF ~h.effectsPending
  THEN h
  ELSE LET h0 == [h EXCEPT !.effectsPending = FALSE]
           h1 == IF h0.effectInterval # -1 THEN timerCleanup(h0) ELSE h0
       IN timerCreate(callbackEffect(h1))

flushEffects(h) ==
  IF ~h.effectsPending
  THEN h
  ELSE LET h0 == [h EXCEPT !.effectsPending = FALSE]
           rerun == h0.effectInterval # h0.renderedInterval
           h1 == IF rerun /\ h0.effectInterval # -1 THEN timerCleanup(h0) ELSE h0
           h2 == callbackEffect(h1)
       IN IF rerun THEN timerCreate(h2) ELSE h2

\* tick: callbackRef.current && callbackRef.current()
tick(h) ==
  IF h.callbackRef # "null"
  THEN [h EXCEPT !.invoked = Append(@, h.callbackRef)]
  ELSE h

HookOthers == UNCHANGED <<circleVars, closeVars, animVars>>

\* The component calls useInterval(callback, interval) in a render; React
\* flushes the effects still pending before it renders again.
HookRender ==
  /\ hookPhase \in {"init", "live"}
  /\ \E cb \in Callbacks, iv \in Intervals :
       /\ iv # renderedInterval => nextTimerId < MaxTimers
       /\ HookBecomes([flushEffects(Hook) EXCEPT !.hookPhase = "live",
                                                !.renderedCallback = cb,
                                                !.renderedInterval = iv,
                                                !.effectsPending = TRUE])
  /\ HookOthers

\* React flushes the effects of the last commit.
HookFlush ==
  /\ hookPhase = "live" /\ effectsPending
  /\ HookBecomes(flushEffects(Hook))
  /\ HookOthers

\* A live timer fires.
HookTick ==
  /\ Len(invoked) < MaxInvoked
  /\ \E t \in timers : HookBecomes(tick(Hook))
  /\ HookOthers

\* The component is unmounted: pending effects are flushed, then cleaned up.
HookUnmount ==
  /\ hookPhase = "live"
  /\ HookBecomes([timerCleanup(flushEffects(Hook)) EXCEPT !.hookPhase = "gone"])
  /\ HookOthers

----------------------------------------------------------------------------
(* animateStep: the composed animation of one step, played against a     *)
(* clock in milliseconds.  Animated.stagger(delay, [a, b]) starts a at once *)
(* and b after the delay (at once when the delay is not positive);          *)
(* Animated.parallel stops all its parts when one of them ends unfinished;  *)
(* an animation started on a value stops the one running on that value.     *)

fadeInAnimDuration == 400

Durations == {100 * k : k \in 1..MaxDurationTicks}

\* The stagger delay of animateStep: duration - textDuration.
staggerDelayNone(duration) == duration

staggerDelay(duration) == duration - fadeInAnimDuration

\* animateStep(toValue, duration): the composition, not yet started.
animateStep(toValue, duration) ==
  [toValue |-> toValue, duration |-> duration,
   textDuration |-> fadeInAnimDuration,
   delay |-> staggerDelay(duration),
   clock |-> 0,
   scale |-> "idle", fadeIn |-> "idle", fadeOut |-> "idle", fadeOutStart |-> -1,
   fadeOutEnd |-> -1, result |-> "none", endedAt |-> -1]

\* The fade-out is started on textAnimVal while the fade-in still runs on
\* it: the fade-in ends unfinished, and with it the whole composition.
Superseded(a) ==
  [a EXCEPT !.fadeIn = "stopped",
            !.scale = IF @ = "running" THEN "stopped" ELSE @,
            !.fadeOut = "stopped",
            !.result = "stopped", !.endedAt = a.clock]

\* What happens at the time a.clock: animations that reach their duration
\* finish, the fade-out starts when its delay has passed, and the composition
\* completes when its three animations have finished.
Settle(a) ==
  LET a1 == [a EXCEPT !.scale = IF @ = "running" /\ a.clock >= a.duration
                                THEN "finished" ELSE @,
                      !.fadeIn = IF @ = "running" /\ a.clock >= a.textDuration
                                 THEN "finished" ELSE @]
      due == a1.fadeOut = "idle" /\ a1.clock >= a1.delay
  IN IF due /\ a1.fadeIn = "running"
     THEN Superseded(a1)
     ELSE LET a2 == IF due
                    THEN [a1 EXCEPT !.fadeOut = "running", !.fadeOutStart = a1.clock]
                    ELSE a1
              a3 == IF a2.fadeOut = "running"
                       /\ a2.clock >= a2.fadeOutStart + a2.textDuration
                    THEN [a2 EXCEPT !.fadeOut = "finished", !.fadeOutEnd = a2.clock]
                    ELSE a2
          IN IF a3.scale = "finished" /\ a3.fadeIn = "finished" /\ a3.fadeOut = "finished"
             THEN [a3 EXCEPT !.result = "finished", !.endedAt = a3.clock]
             ELSE a3

\* .start() of the composition.
StartComposed(a) ==
  Settle([a EXCEPT !.scale = "running", !.fadeIn = "running", !.result = "running"])

AnimOthers == UNCHANGED <<circleVars, closeVars, hookVars>>

\* The animation of a step of some kind and duration is created and started.
AnimStart ==
  /\ timeline.result = "none"
  /\ \E id \in StepIds, d \in Durations :
       timeline' = StartComposed(animateStep(StepToValue(id), d))
  /\ AnimOthers

\* Time passes while the animation runs.
AnimAdvance ==
  /\ timeline.result = "running"
  /\ timeline' = Settle([timeline EXCEPT !.clock = @ + 100])
  /\ AnimOthers

AnimIdle == timeline = animateStep(0, 0)

----------------------------------------------------------------------------
(* Specifications *)

CircleIdle(ss) ==
  /\ steps = ss
  /\ phase = "init"
  /\ currentStepIndex = 0
  /\ renderPending = FALSE
  /\ displayedIndex = -1
  /\ showUp = "idle" /\ showCircleMin = "idle" /\ hideCircleMin = "idle"
  /\ circleMinTarget = 0 /\ scaleTarget = 0
  /\ loop = "none" /\ currentAnimationIndex = 0 /\ stepAnim = "idle"
  /\ events = <<>>

CloseIdle(m) ==
  /\ elapsedTime = 0 /\ minimumElapsedTime = m /\ closeCalls = <<>>

HookIdle ==
  /\ hookPhase = "init"
  /\ renderedCallback = "null" /\ renderedInterval = -1
  /\ callbackRef = "null"
  /\ effectsPending = FALSE /\ effectInterval = -1
  /\ timers = {} /\ nextTimerId = 0
  /\ invoked = <<>>

\* The component's lifecycle, for every steps prop.
Init == (\E ss \in StepLists : CircleIdle(ss)) /\ CloseIdle(0) /\ HookIdle /\ AnimIdle

Next ==
  \/ Render
  \/ Mount
  \/ ReRender
  \/ ShowUpEnds
  \/ ShowUpDone
  \/ StepAnimEnds
  \/ StepAnimDone
  \/ CircleMinEnds
  \/ Unmount

Spec == Init /\ [][Next]_vars

\* The close button of a mounted component, for every threshold.
FourSteps == [k \in 1..4 |->
               [id |-> <<"inhale", "afterInhale", "exhale", "afterExhale">>[k],
                skipped |-> FALSE]]

CloseInit ==
  /\ CircleIdle(FourSteps)
  /\ \E m \in MinimumElapsedTimes : CloseIdle(m)
  /\ HookIdle /\ AnimIdle

CloseNext == Render \/ Mount \/ ParentRender \/ ClosePress

CloseSpec == CloseInit /\ [][CloseNext]_vars

\* A component that uses the hook.
HookInit == CircleIdle(FourSteps) /\ CloseIdle(0) /\ HookIdle /\ AnimIdle

HookNext == HookRender \/ HookFlush \/ HookTick \/ HookUnmount

HookSpec == HookInit /\ [][HookNext]_vars

\* One step animation, for every kind and duration of step.
AnimInit == CircleIdle(FourSteps) /\ CloseIdle(0) /\ HookIdle /\ AnimIdle

AnimNext == AnimStart \/ AnimAdvance

AnimSpec == AnimInit /\ [][AnimNext]_vars

----------------------------------------------------------------------------
(* Properties of the step sequencer and of the lifecycle *)

N == Len(activeSteps)
IsEv(k, e) == events[k].ev = e
Positions(e) == {k \in DOMAIN events : IsEv(k, e)}
StepStarts == SelectSeq(events, LAMBDA x : x.ev = "onStepStart")
FinishedSteps == {k \in Positions("stepAnimDone") : events[k].s = "finished"}
SideEffects == {"playSound", "showCircleMin", "hideCircleMin"}

\* C1: for a non-empty ActiveSteps sequence of length N, while every step
\* animation reports finished = true, the k-th onStepStart call (k = 0, 1, ...)
\* carries index k mod N, so the indices run 0, 1, ..., N-1 and wrap to 0
\* with none skipped and none repeated (unless N = 1); there is one call for
\* the start of the loop and one per finished step animation; and a running
\* loop of a mounted component always has a step animation in flight, so
\* there is no terminal state.
C1_StepOrder ==
  N > 0 =>
    /\ \A k \in DOMAIN StepStarts : StepStarts[k].i = (k - 1) % N
    /\ Len(StepStarts) = Cardinality(Positions("loopStart")) + Cardinality(FinishedSteps)
    /\ (loop = "running" /\ phase = "mounted") => stepAnim \in {"running", "ending"}

\* A loop over two or more steps has wrapped back to index 0.
C1_Wrapped ==
  /\ N >= 2
  /\ Len(StepStarts) > N
  /\ StepStarts[N + 1].i = 0

\* C2: once the cleanup has stopped the sequencer on unmount, no onStepStart
\* call follows, also when the completion callback of the current step
\* animation was already queued at that moment.
C2_NoStepAfterStop ==
  \A k \in Positions("unmount") :
    \A j \in DOMAIN events : j > k => ~IsEv(j, "onStepStart")

\* The sequencer was stopped while a step animation had ended and its
\* completion callback was still queued.
C2_StoppedInFlight ==
  \E k \in Positions("unmount") :
    /\ k > 1 /\ IsEv(k - 1, "stepAnimEnds")
    /\ loop = "stopped"
    /\ k < Len(events) /\ IsEv(k + 1, "stepAnimDone") /\ events[k + 1].s = "stopped"

\* C4: after unmount, in whatever phase it came, no animation of the
\* component is running, nothing of the component is left to fire, and the
\* only calls made since are the finished = false notifications of the
\* animations the cleanup stopped: no onStepStart, playSound or
\* setCurrentStepIndex.
C4_TeardownComplete ==
  phase = "unmounted" =>
    /\ showUp = "idle" /\ stepAnim = "idle"
    /\ showCircleMin = "idle" /\ hideCircleMin = "idle"
    /\ ~renderPending
    /\ ~ENABLED (Render \/ Mount \/ ReRender \/ ShowUpEnds \/ ShowUpDone
                   \/ StepAnimEnds \/ StepAnimDone \/ CircleMinEnds \/ Unmount)
    /\ \A k \in Positions("unmount") :
         \A j \in DOMAIN events :
           j > k => /\ events[j].ev \in {"stepAnimDone", "showUpDone"}
                    /\ events[j].s = "stopped"

\* The component was unmounted during a step, with a minimized-circle
\* animation started by that step still running.
C4_UnmountedMidStep ==
  /\ phase = "unmounted"
  /\ \E k \in Positions("unmount") :
       /\ k > 2
       /\ IsEv(k - 1, "stepAnimStart")
       /\ events[k - 2].ev \in {"showCircleMin", "hideCircleMin"}

\* C5: the step sequencer starts only after the entrance animation has
\* completed with finished = true: every loop start, onStepStart call and
\* step animation start has that completion before it, and after a
\* completion with finished = false (the entrance animation was stopped)
\* the sequencer is never started.
C5_StartAfterEntrance ==
  /\ \A k \in DOMAIN events :
       events[k].ev \in {"loopStart", "onStepStart", "stepAnimStart"} =>
         \E j \in Positions("showUpDone") : j < k /\ events[j].s = "finished"
  /\ (\E j \in Positions("showUpDone") : events[j].s = "stopped") =>
       /\ Positions("loopStart") = {}
       /\ Positions("onStepStart") = {}
       /\ loop = "none"

\* The entrance animation completed and the sequencer began its first step.
C5_Started ==
  /\ loop = "running"
  /\ \E j \in Positions("showUpDone") :
       /\ events[j].s = "finished"
       /\ j + 2 <= Len(events) /\ IsEv(j + 1, "loopStart") /\ IsEv(j + 2, "onStepStart")

\* C6: each step animation start for index i comes after the onStepStart(i)
\* call, with nothing between them but that call's one sound and its
\* minimized-circle animation start; and each onStepStart call but the first
\* comes directly after the finished = true completion of the previous
\* step's animation.
C6_Ordering ==
  /\ \A k \in Positions("stepAnimStart") :
       \E j \in Positions("onStepStart") :
         /\ j < k
         /\ events[j].i = events[k].i
         /\ \A m \in (j + 1)..(k - 1) : events[m].ev \in SideEffects
         /\ Cardinality({m \in (j + 1)..(k - 1) : IsEv(m, "playSound")}) = 1
  /\ \A k \in Positions("onStepStart") :
       \/ IsEv(k - 1, "loopStart")
       \/ /\ IsEv(k - 1, "stepAnimDone")
          /\ events[k - 1].s = "finished"
          /\ N > 0 /\ events[k].i = (events[k - 1].i + 1) % N

\* A second step has started after the first one completed.
C6_SecondStepStarted ==
  \E k \in Positions("stepAnimStart") :
    \E j \in FinishedSteps : j < k /\ events[k].i # events[j].i

\* The cue the spec gives for a step id.
C8_Cue(id) ==
  CASE id = "inhale" -> "lauraBreatheIn"
    [] id = "exhale" -> "lauraBreatheOut"
    [] id \in {"afterInhale", "afterExhale"} -> "lauraHold"

\* C8: every onStepStart(i) call is followed at once by one playSound call
\* whose cue is the one of ActiveSteps[i].id, and every playSound call comes
\* directly after an onStepStart call.
C8_SoundPerStep ==
  /\ \A k \in Positions("onStepStart") :
       /\ events[k].i + 1 \in DOMAIN activeSteps
       /\ k < Len(events)
       /\ IsEv(k + 1, "playSound")
       /\ events[k + 1].s = C8_Cue(activeSteps[events[k].i + 1].id)
  /\ \A k \in Positions("playSound") : k > 1 /\ IsEv(k - 1, "onStepStart")

\* Two different cues have been played in one session.
C8_TwoCuesPlayed ==
  Cardinality({events[k].s : k \in Positions("playSound")}) >= 2

\* C9: in every reachable state currentStepIndex lies in
\* [0, len(activeSteps)), so the current step is always defined.
C9_IndexInRange == currentStepIndex \in 0..(N - 1)

\* C10: with an empty active sequence the component never reads a property
\* of an undefined current step and never starts the sequencer or calls
\* onStepStart.
C10_EmptyHandled ==
  N = 0 =>
    /\ Positions("TypeError") = {}
    /\ phase # "crashed"
    /\ Positions("loopStart") = {} /\ Positions("onStepStart") = {}

----------------------------------------------------------------------------
(* Properties of the close button *)

\* C7: the onClosePress call of every close press carries isBreathingDone
\* true when the elapsed time in milliseconds (the elapsedTime prop, in
\* seconds, times 1000) equals the minimum, true above it and false below
\* it: the result is a function of the two props alone.
C7_CloseResult ==
  \A k \in DOMAIN closeCalls :
    LET r == closeCalls[k]
        elapsedTimeMs == r.elapsedTime * 1000
    IN /\ elapsedTimeMs = r.minimumElapsedTime => r.isBreathingDone
       /\ elapsedTimeMs > r.minimumElapsedTime => r.isBreathingDone
       /\ elapsedTimeMs < r.minimumElapsedTime => ~r.isBreathingDone

\* Close was pressed when the elapsed time had just reached a positive minimum.
C7_PressedAtMinimum ==
  \E k \in DOMAIN closeCalls :
    /\ closeCalls[k].elapsedTime > 0
    /\ closeCalls[k].elapsedTime * 1000 = closeCalls[k].minimumElapsedTime
    /\ closeCalls[k].isBreathingDone

----------------------------------------------------------------------------
(* Properties of useInterval *)

Ticked == Len(invoked') = Len(invoked) + 1
LastInvoked == invoked'[Len(invoked')]

\* C3 as stated: with the period unchanged, every tick that fires after a
\* render with a new callback invokes that callback, wherever the tick falls
\* between the render, its effect flush and the next render.
C3_LatestRendered ==
  [][(Ticked /\ renderedInterval = effectInterval) => LastInvoked = renderedCallback]_vars

\* C3, amended: every tick that fires once the effects of the latest render
\* have been flushed invokes that render's callback, and no earlier one.
C3_LatestFlushed ==
  [][(Ticked /\ ~effectsPending) => LastInvoked = renderedCallback]_vars

\* Callback A was replaced by B with the timer left as it was, and the tick
\* after A's invoked B.
C3_Replaced ==
  /\ Len(invoked) >= 2
  /\ invoked[Len(invoked) - 1] = "A" /\ invoked[Len(invoked)] = "B"
  /\ renderedCallback = "B" /\ ~effectsPending
  /\ nextTimerId = 1 /\ Cardinality(timers) = 1


----------------------------------------------------------------------------
(* Properties of the teardown *)

\* C11: the stops of the teardown are idempotent: in every reachable state,
\* running the cleanup twice leaves the state the first run left; a stop of
\* an animation that is idle (never started, finished or stopped) and a
\* stop of a loop already stopped change nothing; and the cleanup adds no
\* loop start and no onStepStart call to the history.
C11_StopIdempotent ==
  LET once == cleanUp(Cur)
      added == {k \in DOMAIN once.events : k > Len(events)}
  IN /\ cleanUp(once) = once
     /\ showUp = "idle" => StopShowUp(Cur) = Cur
     /\ showCircleMin = "idle" => StopShowCircleMin(Cur) = Cur
     /\ hideCircleMin = "idle" => StopHideCircleMin(Cur) = Cur
     /\ loop = "stopped" => stopLoop(Cur) = Cur
     /\ phase = "unmounted" => once = Cur
     /\ \A k \in added : once.events[k].ev \notin {"loopStart", "onStepStart"}
     /\ once.loop # "running"

\* The component was unmounted during the entrance animation: the loop and
\* the minimized-circle animations were never started, the entrance
\* animation is stopped.
C11_StoppedBeforeLoop ==
  /\ phase = "unmounted"
  /\ loop = "none"
  /\ \E k \in Positions("showUpDone") : events[k].s = "stopped"


----------------------------------------------------------------------------
(* Properties of the played sequence *)

NonSkipped == {k \in DOMAIN steps : ~steps[k].skipped}
\* The position in steps of the i-th step that is not skipped, i from 0.
NthNonSkipped(i) ==
  CHOOSE k \in NonSkipped : Cardinality({j \in NonSkipped : j < k}) = i
C12_ToValue(id) == IF id \in {"inhale", "afterInhale"} THEN 1 ELSE 0

\* C12: the sequence played is the steps prop with the skipped steps
\* removed, in the original order: activeSteps is that sequence, there is one
\* step animation per step that is not skipped, in that order, the index i
\* of an onStepStart call denotes the i-th step that is not skipped (its
\* sound is that step's), and the step a render displays is one of them.
C12_PlayedSequence ==
  /\ activeSteps = [k \in 1..Cardinality(NonSkipped) |-> steps[NthNonSkipped(k - 1)]]
  /\ createStepAnimations =
       [k \in 1..Cardinality(NonSkipped) |-> C12_ToValue(steps[NthNonSkipped(k - 1)].id)]
  /\ \A p \in Positions("onStepStart") :
       /\ events[p].i < Cardinality(NonSkipped)
       /\ events[p + 1].s = C8_Cue(steps[NthNonSkipped(events[p].i)].id)
  /\ \A p \in Positions("stepAnimStart") : events[p].i < Cardinality(NonSkipped)
  /\ displayedIndex >= 0 => displayedIndex < Cardinality(NonSkipped)

\* A step after a skipped one has been announced.
C12_PlayedPastSkipped ==
  /\ Len(steps) = 2 /\ steps[1].skipped /\ ~steps[2].skipped
  /\ steps[1].id # steps[2].id
  /\ Positions("playSound") # {}


----------------------------------------------------------------------------
(* Properties of the timer of useInterval *)

\* C13: a render that replaces the callback and keeps the interval, and the
\* effect flush and the ticks that follow it, leave the set of timers and
\* the timer's registration (hence its tick phase) as they are; the timers
\* change only when the effect runs with a changed interval (the first time
\* included) or on unmount.
C13_TimerKept ==
  [][/\ (hookPhase = "live" /\ hookPhase' = "live"
          /\ renderedInterval = effectInterval /\ renderedInterval' = renderedInterval)
         => (timers' = timers /\ nextTimerId' = nextTimerId)
     /\ timers' # timers => (effectInterval' # effectInterval \/ hookPhase' = "gone")]_vars

\* Callback B has replaced callback A, its effects are flushed, and the
\* timer is still the one registered at mount.
C13_ReplacedOnSameTimer ==
  /\ hookPhase = "live" /\ ~effectsPending
  /\ callbackRef = "B" /\ \E k \in DOMAIN invoked : invoked[k] = "A"
  /\ timers = {[id |-> 0, interval |-> effectInterval]}

\* C14: the hook has at most one live timer in every reachable state, the
\* one its timer effect created last and with the interval that effect ran
\* with; after unmount no timer is left and no tick can fire.
C14_OneTimer ==
  /\ Cardinality(timers) <= 1
  /\ \A t \in timers : t.id = nextTimerId - 1 /\ t.interval = effectInterval
  /\ hookPhase = "gone" => (timers = {} /\ ~ENABLED HookTick)

\* The interval changed at least once, ticks fired, and the hook was unmounted.
C14_UnmountedAfterChange ==
  /\ hookPhase = "gone"
  /\ nextTimerId >= 2
  /\ invoked # <<>>


----------------------------------------------------------------------------
(* Properties of the step animation *)

Started == timeline.result # "none"

----------------------------------------------------------------------------
(* Properties of the minimized circle and of the scale *)

\* The id of the step an onStepStart call at position p of the history announced.
AnnouncedId(p) == activeSteps[events[p].i + 1].id
CircleMinIds == {"exhale", "inhale", "afterExhale"}
CircleMinSteps == {p \in Positions("onStepStart") : AnnouncedId(p) \in CircleMinIds}
Latest(S) == CHOOSE p \in S : \A q \in S : q <= p

\* C16: an onStepStart call for an exhale step starts the show animation of
\* the minimized circle, one for an inhale or afterExhale step starts the
\* hide animation, one for an afterInhale step starts neither; so the target
\* of the minimized circle is 1 exactly when the most recent step among
\* exhale, inhale and afterExhale was an exhale, and 0 before any such step.
C16_CircleMinFollowsStep ==
  /\ \A p \in Positions("onStepStart") :
       LET started == IF p + 2 <= Len(events) THEN events[p + 2].ev ELSE "none"
       IN CASE AnnouncedId(p) = "exhale" -> started = "showCircleMin"
            [] AnnouncedId(p) \in {"inhale", "afterExhale"} -> started = "hideCircleMin"
            [] AnnouncedId(p) = "afterInhale" ->
                 started \notin {"showCircleMin", "hideCircleMin"}
  /\ Cardinality(Positions("showCircleMin")) + Cardinality(Positions("hideCircleMin"))
       = Cardinality(CircleMinSteps)
  /\ circleMinTarget \in {0, 1}
  /\ circleMinTarget = 1 <=>
       (CircleMinSteps # {} /\ AnnouncedId(Latest(CircleMinSteps)) = "exhale")
  /\ showCircleMin = "running" => circleMinTarget = 1
  /\ hideCircleMin = "running" => circleMinTarget = 0

\* An afterInhale step began after an exhale step and left the minimized
\* circle shown.
C16_HoldKeepsShown ==
  /\ Positions("onStepStart") # {}
  /\ AnnouncedId(Latest(Positions("onStepStart"))) = "afterInhale"
  /\ circleMinTarget = 1


StartedId(p) == activeSteps[events[p].i + 1].id
C17_Grown(id) == id \in {"inhale", "afterInhale"}

----------------------------------------------------------------------------
(* Properties of the loop's lifetime and of what is displayed *)

InFlight == Cardinality(Positions("stepAnimStart")) - Cardinality(Positions("stepAnimDone"))

\* C18: the step sequencer is started at most once per mounted component:
\* the history holds at most one loop start, at most one step animation of
\* the loop is in flight, and the cleanup on unmount stops that loop, so no
\* loop is running once the component is unmounted.
C18_OneLoop ==
  /\ Cardinality(Positions("loopStart")) <= 1
  /\ loop = "none" <=> Positions("loopStart") = {}
  /\ InFlight \in {0, 1}
  /\ InFlight = 1 <=> stepAnim \in {"running", "ending"}
  /\ stepAnim # "idle" => loop = "running"
  /\ phase = "unmounted" => loop \in {"none", "stopped"}

\* A loop that had played more than one step was stopped by the unmount.
C18_LoopStoppedOnUnmount ==
  /\ phase = "unmounted"
  /\ loop = "stopped"
  /\ Len(StepStarts) >= 2

\* C19: with the steps prop unchanged during the session, once the
\* re-render asked for by the latest onStepStart(i) call is done, the step
\* displayed is step i of the active sequence, the step whose sound cue was
\* played last.
C19_DisplayedIsAnnounced ==
  (phase = "mounted" /\ ~renderPending) =>
    /\ displayedIndex = currentStepIndex
    /\ Positions("onStepStart") = {} => displayedIndex = 0
    /\ Positions("onStepStart") # {} =>
         /\ displayedIndex = events[Latest(Positions("onStepStart"))].i
         /\ events[Latest(Positions("playSound"))].s
              = C8_Cue(activeSteps[displayedIndex + 1].id)

\* The second step of a sequence is displayed after its cue was played.
C19_SecondStepDisplayed ==
  /\ phase = "mounted" /\ ~renderPending
  /\ displayedIndex = 1
  /\ Len(StepStarts) = 2

====
